---- MODULE Spec2Model ----
(***************************************************************************)
(* Model of the prelude utility package: Util.debounce and Util.throttle   *)
(* (src/src/util/all.ts) running on the JavaScript timer queue.            *)
(*                                                                         *)
(* Time is the millisecond clock read by Date.now() and used by            *)
(* setTimeout.  A timer callback runs in its own step, never before its    *)
(* due time and possibly later (the event loop runs it when it gets to     *)
(* it), so handlers of the same wrapper interleave with a due timer in     *)
(* either order.                                                           *)
(***************************************************************************)
EXTENDS Integers, Sequences, FiniteSets, TLC

\* ---- bounds of the model ----
MaxCalls == 2        \* calls of the debounced function per behaviour
MaxThrottleCalls == 3  \* calls of the throttled function per behaviour
MaxTime == 4         \* milliseconds the clock advances past Epoch
MaxMs == 2           \* largest debounce delay tried
MaxInterval == 3     \* largest throttle interval tried
MaxLate == 1         \* how late (ms) the event loop may run a due timer
MaxWrappers == 2     \* wrappers one component creates (renders with new deps)
MaxHookCalls == 2    \* calls of the function a hook returned
MaxLength == 2       \* largest length passed to randomXDigitHash

\* Date.now() is milliseconds since 1970: larger than any interval.
Epoch == MaxInterval + 1

Args == {"a", "b"}
\* what one execution of the user's fn does: return a value, throw
\* synchronously, or return a rejected promise
DebounceOutcomes == {"ret", "throw", "reject"}
ThrottleOutcomes == {"ret", "throw"}

VARIABLES
    clock,         \* Date.now()
    nextId,        \* next handle setTimeout returns
    timers,        \* the runtime's scheduled, not yet run, timer callbacks
    uncaught,      \* exceptions that escaped a timer callback
    lastOp,        \* the handler that ran last
    \* -- Util.debounce closure --
    ms,            \* debounce delay
    t,             \* timer handle (0 = undefined)
    \* -- observations of the debounce wrapper --
    dCalls,        \* calls of debounceFn, in order
    promises,      \* promise returned by each call of debounceFn
    dExecs,        \* executions of fn by the debounce wrapper
    dSuperseded,   \* calls whose timer a later call cleared
    dTorn,         \* calls whose timer teardown cleared
    \* -- Util.throttle closure --
    interval,      \* throttle interval
    lastCallTime,
    timeoutId,     \* timer handle (0 = null)
    \* -- observations of the throttle wrapper --
    tCalls,        \* calls of throttledFn, in order
    tExecs,        \* executions of fn by the throttle wrapper
    tTorn,         \* timer handles teardown cleared
    \* -- a component using useDebounce / useThrottle --
    hook,
    \* -- the last call of Hash.randomXDigitHash --
    hash

rt == <<clock, nextId, timers, uncaught, lastOp>>
dvars == <<ms, t, dCalls, promises, dExecs, dSuperseded, dTorn>>
tvars == <<interval, lastCallTime, timeoutId, tCalls, tExecs, tTorn>>
xvars == <<hook, hash>>
vars == <<rt, dvars, tvars, xvars>>

\* ---- the timer queue ----

\* clearTimeout(h): drops the timer with that handle; a handle that is
\* undefined, already run or already cleared is ignored
clearTimeout(tm, h) == {x \in tm : x.id # h}

Timer(h, due, owner, args, call) ==
    [id |-> h, due |-> due, owner |-> owner, args |-> args, call |-> call]

DebounceTimers == {x \in timers : x.owner = "debounce"}
ThrottleTimers == {x \in timers : x.owner = "throttle"}

\* the clock advances, at least until every scheduled timer is due; a due
\* timer is run at most MaxLate ms late
Tick ==
    /\ clock < Epoch + MaxTime \/ \E x \in timers : clock < x.due
    /\ \A x \in timers : clock < x.due + MaxLate
    /\ clock' = clock + 1
    /\ lastOp' = "Tick"
    /\ UNCHANGED <<nextId, timers, uncaught, dvars, tvars, xvars>>

\* ---- the user's fn ----
FnValue(a) == <<"value", a>>
FnError(a) == <<"error", a>>
NoValue == <<"none", "">>

\* ---- Util.debounce ----
Pending == [st |-> "pending", v |-> NoValue]

\* the previous timer is left running
debounceCleared_never(tm, h) == tm

\* the test is inverted: if (!t) clearTimeout(t)
debounceCleared_inverted(tm, h) == IF h = 0 THEN clearTimeout(tm, h) ELSE tm

\* if (t) clearTimeout(t)
debounceCleared(tm, h) == IF h # 0 THEN clearTimeout(tm, h) ELSE tm

\* setTimeout(..., ms) called at time nowv
debounceDue(nowv, d) == nowv + d

\* resolve(args): the promise gets the argument, fn's result is dropped
settle_args(p, out, a) == [st |-> "resolved", v |-> <<"args", a>>]

\* resolve(fn(args)) inside the timer callback: a returned value resolves
\* the promise, a returned rejected promise rejects it, a synchronous throw
\* leaves the callback before resolve is called
settle(p, out, a) ==
    CASE out = "ret" -> [st |-> "resolved", v |-> FnValue(a)]
      [] out = "reject" -> [st |-> "rejected", v |-> FnError(a)]
      [] OTHER -> p

debounceFn(args) ==
    /\ ms >= 0
    /\ Len(dCalls) < MaxCalls
    /\ LET c == Len(dCalls) + 1 IN
        /\ timers' = debounceCleared(timers, t)
                       \cup {Timer(nextId, debounceDue(clock, ms), "debounce", args, c)}
        /\ dSuperseded' = dSuperseded
                       \cup {x.call : x \in timers \ debounceCleared(timers, t)}
        /\ dCalls' = Append(dCalls, [time |-> clock, args |-> args,
                                     nexecs |-> Len(dExecs)])
        /\ promises' = Append(promises, Pending)
    /\ t' = nextId
    /\ nextId' = nextId + 1
    /\ lastOp' = "debounceFn"
    /\ UNCHANGED <<clock, uncaught, ms, dExecs, dTorn, tvars, xvars>>

\* the callback would run again and again (setInterval)
afterRun_repeat(tm, x) == tm

\* a setTimeout callback runs once: the timer leaves the queue
afterRun(tm, x) == tm \ {x}

\* the callback () => resolve(fn(args))
debounceTimer ==
    \E x \in DebounceTimers : \E out \in DebounceOutcomes :
        /\ clock >= x.due
        /\ timers' = afterRun(timers, x)
        /\ dExecs' = Append(dExecs, [time |-> clock, call |-> x.call,
                                     args |-> x.args, due |-> x.due, out |-> out])
        /\ promises' = [promises EXCEPT ![x.call] = settle(@, out, x.args)]
        /\ uncaught' = IF out = "throw" THEN uncaught \cup {FnError(x.args)}
                       ELSE uncaught
        /\ lastOp' = "debounceTimer"
        /\ UNCHANGED <<clock, nextId, ms, t, dCalls, dSuperseded, dTorn, tvars,
                       xvars>>

\* teardown that clears nothing
debounceTeardownTimers_noop(tm, h) == tm

\* teardown that clears the handle t had when the wrapper was made
debounceTeardownTimers_stale(tm, h) == clearTimeout(tm, 0)

\* const teardown = () => clearTimeout(t)
debounceTeardownTimers(tm, h) == clearTimeout(tm, h)

debounceTeardown ==
    /\ ms >= 0
    /\ timers' = debounceTeardownTimers(timers, t)
    /\ dTorn' = dTorn \cup {x.call : x \in {y \in DebounceTimers : y.id = t}}
    /\ lastOp' = "debounceTeardown"
    /\ UNCHANGED <<clock, nextId, uncaught, ms, t, dCalls, promises, dExecs,
                   dSuperseded, tvars, xvars>>

\* no component is mounted, Hash has not been called
NoHook == [kind |-> "none", mounted |-> FALSE, closures |-> <<>>,
           calls |-> 0, torn |-> 0, late |-> 0]
NoHash == [called |-> FALSE, arg |-> 0, random |-> 0, length |-> 0,
           out |-> [defined |-> TRUE, s |-> <<>>]]

InitRuntime ==
    /\ clock = Epoch
    /\ nextId = 1
    /\ timers = {}
    /\ uncaught = {}
    /\ lastOp = "init"
    /\ t = 0
    /\ dCalls = <<>>
    /\ promises = <<>>
    /\ dExecs = <<>>
    /\ dSuperseded = {}
    /\ dTorn = {}
    /\ lastCallTime = 0
    /\ timeoutId = 0
    /\ tCalls = <<>>
    /\ tExecs = <<>>
    /\ tTorn = {}

\* Util.debounce(fn, ms)
InitDebounce ==
    /\ InitRuntime
    /\ ms \in 0..MaxMs
    /\ interval = 0
    /\ hook = NoHook
    /\ hash = NoHash

NextDebounce ==
    \/ Tick
    \/ \E a \in Args : debounceFn(a)
    \/ debounceTimer
    \/ debounceTeardown

SpecDebounce == InitDebounce /\ [][NextDebounce]_vars

\* ---- Util.throttle ----

\* strict comparison: a call exactly interval later is still suppressed
throttlePasses_strict(nowv, last, iv) == nowv - last > iv

\* if (now - lastCallTime >= interval)
throttlePasses(nowv, last, iv) == nowv - last >= iv

\* the guard is missing: every suppressed call schedules a timer
noTimeout_always(h) == TRUE

\* if (!timeoutId)
noTimeout(h) == h = 0

\* the full interval from the suppressed call
throttleDelay_full(nowv, last, iv) == iv

\* the delay handed to setTimeout: interval - (now - lastCallTime)
throttleDelay(nowv, last, iv) == iv - (nowv - last)

\* the assignment placed after the call of fn: skipped when fn throws
recordedTime_afterFn(nowv, last, out) == IF out = "throw" THEN last ELSE nowv

\* lastCallTime = now / lastCallTime = Date.now(), assigned before fn is
\* called, so whatever fn does
recordedTime(nowv, last, out) == nowv

\* timeoutId = null is forgotten in the callback
clearedId_kept(h, out) == h

\* timeoutId = null placed after the call of fn: skipped when fn throws
clearedId_afterFn(h, out) == IF out = "throw" THEN h ELSE 0

\* timeoutId = null in the trailing callback, before fn is called
clearedId(h, out) == 0

\* what the call returns: fn's value on the immediate path, else nothing
throttleReturn(ran, out, a) ==
    IF ran /\ out = "ret" THEN FnValue(a)
    ELSE IF ran THEN FnError(a)
    ELSE NoValue

throttledFn(args) ==
    /\ interval > 0
    /\ Len(tCalls) < MaxThrottleCalls
    /\ LET now == clock
           c == Len(tCalls) + 1
           rec(ran, out, h, due) ==
               [time |-> now, args |-> args, ran |-> ran,
                ret |-> throttleReturn(ran, out, args),
                nexecs |-> Len(tExecs), pendingBefore |-> ThrottleTimers # {},
                scheduled |-> h, due |-> due]
       IN
        IF throttlePasses(now, lastCallTime, interval)
        THEN \E out \in ThrottleOutcomes :
            /\ lastCallTime' = recordedTime(now, lastCallTime, out)
            /\ tExecs' = Append(tExecs, [time |-> now, args |-> args,
                                         kind |-> "immediate", out |-> out,
                                         timer |-> 0, ncalls |-> c,
                                         sched |-> c, due |-> now])
            /\ tCalls' = Append(tCalls, rec(TRUE, out, 0, 0))
            /\ UNCHANGED <<timeoutId, timers, nextId>>
        ELSE IF noTimeout(timeoutId)
        THEN LET due == now + throttleDelay(now, lastCallTime, interval) IN
            /\ timers' = timers \cup {Timer(nextId, due, "throttle", args, c)}
            /\ timeoutId' = nextId
            /\ nextId' = nextId + 1
            /\ tCalls' = Append(tCalls, rec(FALSE, "ret", nextId, due))
            /\ UNCHANGED <<lastCallTime, tExecs>>
        ELSE
            /\ tCalls' = Append(tCalls, rec(FALSE, "ret", 0, 0))
            /\ UNCHANGED <<lastCallTime, tExecs, timeoutId, timers, nextId>>
    /\ lastOp' = "throttledFn"
    /\ UNCHANGED <<clock, uncaught, interval, tTorn, dvars, xvars>>

\* the trailing callback: lastCallTime = Date.now(); timeoutId = null;
\* fn(...args), with the args of the call that created the timer
throttleTimer ==
    \E x \in ThrottleTimers : \E out \in ThrottleOutcomes :
        /\ clock >= x.due
        /\ timers' = afterRun(timers, x)
        /\ lastCallTime' = recordedTime(clock, lastCallTime, out)
        /\ timeoutId' = clearedId(timeoutId, out)
        /\ tExecs' = Append(tExecs,
              [time |-> clock, args |-> x.args, kind |-> "trailing",
               out |-> out, timer |-> x.id, ncalls |-> Len(tCalls),
               sched |-> x.call, due |-> x.due])
        /\ uncaught' = IF out = "throw" THEN uncaught \cup {FnError(x.args)}
                       ELSE uncaught
        /\ lastOp' = "throttleTimer"
        /\ UNCHANGED <<clock, nextId, interval, tCalls, tTorn, dvars, xvars>>

\* teardown that also resets the throttle window
tornDownTime_reset(last) == 0

\* teardown does not touch lastCallTime
tornDownTime(last) == last

\* teardown that forgets the handle but leaves the timer running
throttleTeardownTimers_noop(tm, h) == tm

\* if (timeoutId) { clearTimeout(timeoutId); timeoutId = null; }
throttleTeardownTimers(tm, h) == IF h # 0 THEN clearTimeout(tm, h) ELSE tm

throttleTeardown ==
    /\ interval > 0
    /\ timers' = throttleTeardownTimers(timers, timeoutId)
    /\ timeoutId' = 0
    /\ lastCallTime' = tornDownTime(lastCallTime)
    /\ tTorn' = tTorn \cup {x.id : x \in {y \in ThrottleTimers : y.id = timeoutId}}
    /\ lastOp' = "throttleTeardown"
    /\ UNCHANGED <<clock, nextId, uncaught, interval, tCalls, tExecs, dvars,
                   xvars>>

\* Util.throttle(fn, interval)
InitThrottle ==
    /\ InitRuntime
    /\ interval \in 1..MaxInterval
    /\ ms = -1
    /\ hook = NoHook
    /\ hash = NoHash

NextThrottle ==
    \/ Tick
    \/ \E a \in Args : throttledFn(a)
    \/ throttleTimer
    \/ throttleTeardown

SpecThrottle == InitThrottle /\ [][NextThrottle]_vars

\* time passes and the event loop runs every timer that is due
SpecThrottleLive == SpecThrottle /\ WF_vars(Tick) /\ WF_vars(throttleTimer)



\* ---- one wrapper of either kind ----
\* a program that made one wrapper, with Util.debounce (ms >= 0) or with
\* Util.throttle (interval > 0); the handlers of the other kind do not exist
InitUtil == InitDebounce \/ InitThrottle

NextUtil == NextDebounce \/ NextThrottle

SpecUtil == InitUtil /\ [][NextUtil]_vars

\* ---- useDebounce / useThrottle ----
\* One component.  useMemo(() => Util.debounce(fn, ms), [fn, ms]) makes a
\* new wrapper, with its own closure, in every render where fn or ms has
\* changed identity; the render returns the function of the newest wrapper.
\* useEffect(() => () => tearDown(), []) runs once, after the first render.

HookTimers == {x \in timers : x.owner = "hook"}

\* the closure of a fresh wrapper: t = undefined / timeoutId = null,
\* lastCallTime = 0
NewClosure == [handle |-> 0, last |-> 0]

\* the wrapper whose tearDown the effect's cleanup calls: with the empty
\* dependency list the effect keeps the tearDown of the first render
effectWrapper(closures) == 1

\* a render in which fn or ms changed identity
hookRender ==
    /\ hook.mounted
    /\ Len(hook.closures) < MaxWrappers
    /\ hook' = [hook EXCEPT !.closures = Append(@, NewClosure)]
    /\ lastOp' = "hookRender"
    /\ UNCHANGED <<clock, nextId, timers, uncaught, dvars, tvars, hash>>

\* a call of the function the last render returned
hookCall(args) ==
    /\ hook.mounted
    /\ hook.calls < MaxHookCalls
    /\ LET cur == Len(hook.closures)
           w == hook.closures[cur]
           counted == [hook EXCEPT !.calls = @ + 1]
       IN
        IF hook.kind = "useDebounce"
        THEN
            /\ timers' = debounceCleared(timers, w.handle)
                  \cup {Timer(nextId, debounceDue(clock, ms), "hook", args, cur)}
            /\ hook' = [counted EXCEPT !.closures[cur].handle = nextId]
            /\ nextId' = nextId + 1
        ELSE IF throttlePasses(clock, w.last, interval)
        THEN
            /\ hook' = [counted EXCEPT !.closures[cur].last =
                                          recordedTime(clock, w.last, "ret")]
            /\ UNCHANGED <<timers, nextId>>
        ELSE IF noTimeout(w.handle)
        THEN
            /\ timers' = timers \cup
                  {Timer(nextId, clock + throttleDelay(clock, w.last, interval),
                         "hook", args, cur)}
            /\ hook' = [counted EXCEPT !.closures[cur].handle = nextId]
            /\ nextId' = nextId + 1
        ELSE
            /\ hook' = counted
            /\ UNCHANGED <<timers, nextId>>
    /\ lastOp' = "hookCall"
    /\ UNCHANGED <<clock, uncaught, dvars, tvars, hash>>

\* the timer callback of one of the component's wrappers runs fn
hookTimer ==
    \E x \in HookTimers :
        /\ clock >= x.due
        /\ timers' = afterRun(timers, x)
        /\ LET ran == [hook EXCEPT !.late = IF hook.mounted THEN @ ELSE @ + 1] IN
            hook' = IF hook.kind = "useDebounce" THEN ran
                    ELSE [ran EXCEPT
                            !.closures[x.call].last =
                                recordedTime(clock, @, "ret"),
                            !.closures[x.call].handle = clearedId(@, "ret")]
        /\ lastOp' = "hookTimer"
        /\ UNCHANGED <<clock, nextId, uncaught, dvars, tvars, hash>>

\* the component unmounts: the effect's cleanup calls tearDown
hookUnmount ==
    /\ hook.mounted
    /\ LET w == effectWrapper(hook.closures)
           h == hook.closures[w].handle
           gone == [hook EXCEPT !.mounted = FALSE, !.torn = w]
       IN
        IF hook.kind = "useDebounce"
        THEN /\ timers' = debounceTeardownTimers(timers, h)
             /\ hook' = gone
        ELSE /\ timers' = throttleTeardownTimers(timers, h)
             /\ hook' = [gone EXCEPT !.closures[w].handle = 0]
    /\ lastOp' = "hookUnmount"
    /\ UNCHANGED <<clock, nextId, uncaught, dvars, tvars, hash>>

\* a component mounted with useDebounce(fn, ms) or useThrottle(fn, ms)
InitHook ==
    /\ InitRuntime
    /\ \E k \in {"useDebounce", "useThrottle"} :
          /\ hook = [kind |-> k, mounted |-> TRUE, closures |-> <<NewClosure>>,
                     calls |-> 0, torn |-> 0, late |-> 0]
          /\ IF k = "useDebounce"
             THEN ms \in 0..MaxMs /\ interval = 0
             ELSE ms = -1 /\ interval \in 1..MaxInterval
    /\ hash = NoHash

NextHook ==
    \/ Tick
    \/ hookRender
    \/ \E a \in Args : hookCall(a)
    \/ hookTimer
    \/ hookUnmount

SpecHook == InitHook /\ [][NextHook]_vars


\* ---- Hash.randomXDigitHash ----
\* Math.random() returns n / 16^Precision for some n in 0..16^Precision - 1:
\* a fraction with as many hex digits as the default length asks for.
\* Strings are sequences of one-character strings.

DefaultLength == 4
Precision == DefaultLength
Omitted == -1        \* the argument is left out
Hex == <<"0", "1", "2", "3", "4", "5", "6", "7",
         "8", "9", "a", "b", "c", "d", "e", "f">>

RECURSIVE Pow16(_)
Pow16(k) == IF k = 0 THEN 1 ELSE 16 * Pow16(k - 1)

Randoms == 0..(Pow16(Precision) - 1)

RECURSIVE StripZeros(_)
StripZeros(ds) ==
    IF ds # <<>> /\ ds[Len(ds)] = 0
    THEN StripZeros(SubSeq(ds, 1, Len(ds) - 1))
    ELSE ds

\* (n / 16^Precision).toString(16): "0" for zero, otherwise "0." and the
\* hex digits of the fraction without trailing zeros
toString16(n) ==
    LET ds == StripZeros([i \in 1..Precision |->
                              (n \div Pow16(Precision - i)) % 16])
    IN IF n = 0 THEN <<"0">>
       ELSE <<"0", ".">> \o [i \in 1..Len(ds) |-> Hex[ds[i] + 1]]

\* s.split(sep)
RECURSIVE split(_, _)
split(str, sep) ==
    IF \E i \in 1..Len(str) : str[i] = sep
    THEN LET i == CHOOSE j \in 1..Len(str) :
                      str[j] = sep /\ \A k \in 1..(j - 1) : str[k] # sep
         IN <<SubSeq(str, 1, i - 1)>> \o split(SubSeq(str, i + 1, Len(str)), sep)
    ELSE <<str>>

\* s.substring(0, end)
substring0(str, end) ==
    LET e == IF end < 0 THEN 0 ELSE IF end > Len(str) THEN Len(str) ELSE end
    IN SubSeq(str, 1, e)

Undefined == [defined |-> FALSE, s |-> <<>>]

\* Math.random().toString(16).split(".")[1]?.substring(0, length)
randomXDigitHash(n, length) ==
    LET parts == split(toString16(n), ".") IN
        IF Len(parts) < 2 THEN Undefined
        ELSE [defined |-> TRUE, s |-> substring0(parts[2], length)]

\* the lengths asked for: none, small ones, and one longer than any
\* fraction the random source returns
Lengths == {Omitted, Precision + 1} \cup 0..MaxLength

\* one call, with the argument and the random number drawn at the start
hashCall ==
    /\ ~hash.called
    /\ LET length == IF hash.arg = Omitted THEN DefaultLength ELSE hash.arg IN
          hash' = [hash EXCEPT !.called = TRUE, !.length = length,
                               !.out = randomXDigitHash(hash.random, length)]
    /\ lastOp' = "randomXDigitHash"
    /\ UNCHANGED <<clock, nextId, timers, uncaught, dvars, tvars, hook>>

InitHash ==
    /\ InitRuntime
    /\ ms = -1
    /\ interval = 0
    /\ hook = NoHook
    /\ \E n \in Randoms : \E arg \in Lengths :
          hash = [NoHash EXCEPT !.arg = arg, !.random = n]

NextHash == hashCall

SpecHash == InitHash /\ [][NextHash]_vars

\* ---- properties of the debounce wrapper ----
DExecsOf(c) == {i \in 1..Len(dExecs) : dExecs[i].call = c}

\* call c+1 arrived before ms had elapsed since call c
Rapid(c) == c < Len(dCalls) /\ dCalls[c + 1].time < dCalls[c].time + ms

\* C1: a burst of rapid debounced calls gives exactly one execution of fn:
\* every execution runs for one call, with that call's argument, on the
\* timer due ms after that call and not before it; no call is executed
\* twice; a call followed by a rapid call is never executed; and the last
\* call, unless torn down, is either still scheduled or executed once.
DebounceBurstCollapse ==
    /\ \A i \in 1..Len(dExecs) :
          LET e == dExecs[i] IN
            /\ e.args = dCalls[e.call].args
            /\ e.due = dCalls[e.call].time + ms
            /\ e.time >= e.due
    /\ \A c \in 1..Len(dCalls) : Cardinality(DExecsOf(c)) <= 1
    /\ \A c \in 1..Len(dCalls) : Rapid(c) => DExecsOf(c) = {}
    /\ Len(dCalls) > 0 /\ Len(dCalls) \notin dTorn =>
          \/ DExecsOf(Len(dCalls)) = {} /\ \E x \in DebounceTimers : x.call = Len(dCalls)
          \/ Cardinality(DExecsOf(Len(dCalls))) = 1 /\ DebounceTimers = {}

\* a burst of rapid calls made at different times with differing arguments
\* has been executed
DebounceBurstWitness ==
    /\ Len(dCalls) >= 2
    /\ \A c \in 1..(Len(dCalls) - 1) :
          Rapid(c) /\ dCalls[c + 1].time > dCalls[c].time
    /\ dCalls[1].args # dCalls[Len(dCalls)].args
    /\ dTorn = {}
    /\ Len(dExecs) = 1
    /\ dExecs[1].call = Len(dCalls)
    /\ dExecs[1].time = dCalls[Len(dCalls)].time + ms

\* C7: a debounced call whose timer teardown cleared is never executed
\* and has no timer left.
DebounceTeardownCancels ==
    \A c \in dTorn :
        /\ DExecsOf(c) = {}
        /\ \A x \in DebounceTimers : x.call # c

\* teardown cleared a pending call and the clock went past its due time
DebounceTeardownWitness ==
    /\ dTorn # {}
    /\ \E c \in dTorn : clock > dCalls[c].time + ms + MaxLate
    /\ dExecs = <<>>

\* C9: a promise is resolved exactly when fn ran for its call and returned,
\* and then holds fn's return value; the promise of a call superseded by a
\* later call stays pending; no execution settles more than one promise.
DebounceResultHandles ==
    /\ \A c \in 1..Len(promises) :
          promises[c].st = "resolved" <=>
              \E i \in DExecsOf(c) : dExecs[i].out = "ret"
    /\ \A i \in 1..Len(dExecs) :
          dExecs[i].out = "ret" =>
              promises[dExecs[i].call] =
                  [st |-> "resolved", v |-> FnValue(dCalls[dExecs[i].call].args)]
    /\ \A c \in dSuperseded : promises[c] = Pending
    /\ Len(promises) = Len(dCalls)
    /\ Cardinality({c \in 1..Len(promises) : promises[c] # Pending}) <= Len(dExecs)

\* the second call of a burst was resolved, the first one superseded
DebounceResultWitness ==
    /\ 1 \in dSuperseded
    /\ Len(dCalls) >= 2
    /\ promises[1] = Pending
    /\ promises[2].st = "resolved"
    /\ lastOp = "debounceTimer"

\* C10: when fn fails in the delayed execution (throws or returns a
\* rejected promise), the promise of that call is rejected with fn's error.
DebounceFailurePropagates ==
    \A i \in 1..Len(dExecs) :
        dExecs[i].out \in {"throw", "reject"} =>
            promises[dExecs[i].call] =
                [st |-> "rejected", v |-> FnError(dExecs[i].args)]

\* ---- properties of the throttle wrapper ----
Trailing == {i \in 1..Len(tExecs) : tExecs[i].kind = "trailing"}
TExecsOfTimer(h) == {i \in Trailing : tExecs[i].timer = h}

\* fn had not run before call c, or ran last at least interval before it
Fresh(c) ==
    LET r == tCalls[c] IN
        r.nexecs = 0 \/ r.time - tExecs[r.nexecs].time >= interval

\* the most recent suppressed call made before execution i
LatestSuppressedBefore(i) ==
    LET S == {c \in 1..tExecs[i].ncalls : ~tCalls[c].ran} IN
        CHOOSE c \in S : \A d \in S : d <= c

\* C2: any two consecutive executions of fn by one throttle wrapper are at
\* least interval milliseconds apart.
ThrottleRateLimit ==
    \A i \in 1..(Len(tExecs) - 1) :
        tExecs[i + 1].time - tExecs[i].time >= interval

\* C3: a trailing execution calls fn with the arguments of the most recent
\* suppressed call.
ThrottleTrailingLatestArgs ==
    \A i \in Trailing :
        tExecs[i].args = tCalls[LatestSuppressedBefore(i)].args

\* C4: a call made when fn has never run, or at least interval after its
\* last execution (immediate or trailing), executes fn inside the call with
\* the call's arguments, returns fn's value and makes the call time the
\* last-execution time; any other call does not execute fn and returns
\* nothing.
ThrottleImmediateRule ==
    /\ \A c \in 1..Len(tCalls) :
          LET r == tCalls[c]
              n == r.nexecs IN
            /\ Fresh(c) =>
                  /\ r.ran
                  /\ Len(tExecs) > n
                  /\ tExecs[n + 1].kind = "immediate"
                  /\ tExecs[n + 1].ncalls = c
                  /\ tExecs[n + 1].time = r.time
                  /\ tExecs[n + 1].args = r.args
                  /\ tExecs[n + 1].out = "ret" => r.ret = FnValue(r.args)
            /\ ~Fresh(c) =>
                  /\ ~r.ran
                  /\ r.ret = NoValue
                  /\ \A i \in 1..Len(tExecs) :
                        tExecs[i].ncalls = c => tExecs[i].kind = "trailing"
    /\ Len(tExecs) > 0 => lastCallTime = tExecs[Len(tExecs)].time

\* a call exactly interval after a trailing execution ran immediately, and
\* a call inside the interval was suppressed
ThrottleImmediateWitness ==
    /\ lastOp = "throttledFn"
    /\ Len(tCalls) >= 3
    /\ \E c \in 2..Len(tCalls) :
          /\ tCalls[c].ran
          /\ tExecs[tCalls[c].nexecs].kind = "trailing"
          /\ tCalls[c].time = tExecs[tCalls[c].nexecs].time + interval
    /\ \E c \in 2..Len(tCalls) : ~tCalls[c].ran
    /\ interval > 1

\* C5: at most one trailing timer is pending; a suppressed call made while
\* one is pending schedules none; every timer scheduled is pending, or
\* cleared by teardown, or has produced exactly one trailing execution.
ThrottleSingleTrailing ==
    /\ Cardinality(ThrottleTimers) <= 1
    /\ \A c \in 1..Len(tCalls) :
          tCalls[c].pendingBefore => tCalls[c].scheduled = 0
    /\ \A c \in 1..Len(tCalls) :
          LET h == tCalls[c].scheduled IN
            h # 0 =>
              \/ /\ \E x \in ThrottleTimers : x.id = h
                 /\ h \notin tTorn /\ TExecsOfTimer(h) = {}
              \/ /\ h \in tTorn
                 /\ TExecsOfTimer(h) = {} /\ \A x \in ThrottleTimers : x.id # h
              \/ /\ Cardinality(TExecsOfTimer(h)) = 1
                 /\ h \notin tTorn /\ \A x \in ThrottleTimers : x.id # h
    /\ \A i \in Trailing : \E c \in 1..Len(tCalls) : tCalls[c].scheduled = tExecs[i].timer

\* several suppressed calls in one window were followed by one trailing
\* execution
ThrottleSingleTrailingWitness ==
    /\ Len(tCalls) >= 3
    /\ \A c \in 2..Len(tCalls) : ~tCalls[c].ran /\ tCalls[c].nexecs = 1
    /\ Len(tExecs) = 2
    /\ tExecs[2].kind = "trailing"
    /\ tExecs[2].ncalls = Len(tCalls)
    /\ tTorn = {}

\* C6: the timer a suppressed call schedules is due exactly interval after
\* the last execution of fn before that call, and the due time stays what
\* it was until the timer runs, which is never before it.
ThrottleTrailingDue ==
    /\ \A c \in 1..Len(tCalls) :
          LET r == tCalls[c] IN
            r.scheduled # 0 =>
              /\ r.nexecs > 0
              /\ r.due = tExecs[r.nexecs].time + interval
    /\ \A x \in ThrottleTimers :
          /\ tCalls[x.call].scheduled = x.id
          /\ x.due = tCalls[x.call].due
    /\ \A i \in Trailing :
          /\ tCalls[tExecs[i].sched].scheduled = tExecs[i].timer
          /\ tExecs[i].due = tCalls[tExecs[i].sched].due
          /\ tExecs[i].time >= tExecs[i].due

\* the trailing execution ran after two suppressed calls made at different
\* times, neither of them at the time of the last execution
ThrottleTrailingDueWitness ==
    /\ Len(tCalls) >= 3
    /\ ~tCalls[2].ran /\ ~tCalls[3].ran
    /\ tCalls[2].time > tCalls[1].time
    /\ tCalls[3].time > tCalls[2].time
    /\ tCalls[3].nexecs = 1
    /\ Len(tExecs) >= 2
    /\ tExecs[2].kind = "trailing"
    /\ tExecs[2].time = tCalls[1].time + interval

\* C8: a trailing timer cleared by teardown never runs fn, and after
\* teardown the wrapper has no timer pending.
ThrottleTeardownCancels ==
    /\ \A h \in tTorn :
          /\ TExecsOfTimer(h) = {}
          /\ \A x \in ThrottleTimers : x.id # h
    /\ lastOp = "throttleTeardown" => timeoutId = 0 /\ ThrottleTimers = {}

\* teardown cleared a scheduled trailing execution and the clock went past
\* its due time
ThrottleTeardownWitness ==
    /\ tTorn # {}
    /\ \E c \in 1..Len(tCalls) :
          /\ tCalls[c].scheduled \in tTorn
          /\ clock > tCalls[c].due + MaxLate
    /\ Trailing = {}

\* C11: a throw of fn reaches the caller on the immediate path and
\* surfaces from the timer callback on the trailing path; either way the
\* wrapper is left as after a normal execution (last-execution time
\* recorded, no timer marked pending after a trailing run), and the calls
\* made after a failed execution follow the elapsed-time rule.
ThrottleFailureIsolation ==
    /\ \A i \in 1..Len(tExecs) :
          LET e == tExecs[i] IN
            e.out = "throw" =>
              IF e.kind = "immediate"
              THEN tCalls[e.ncalls].ret = FnError(e.args)
              ELSE FnError(e.args) \in uncaught
    /\ Len(tExecs) > 0 => lastCallTime = tExecs[Len(tExecs)].time
    /\ lastOp = "throttleTimer" => timeoutId = 0 /\ ThrottleTimers = {}
    /\ \A c \in 1..Len(tCalls) :
          LET r == tCalls[c] IN
            r.nexecs > 0 /\ tExecs[r.nexecs].out = "throw" =>
              /\ r.ran <=> Fresh(c)
              /\ ~r.ran /\ ~r.pendingBefore => r.scheduled # 0

\* fn threw in an immediate and in a trailing execution, and the call made
\* after the failed trailing execution scheduled a new trailing execution
ThrottleFailureWitness ==
    /\ Len(tExecs) >= 2
    /\ tExecs[1].kind = "immediate" /\ tExecs[1].out = "throw"
    /\ tExecs[2].kind = "trailing" /\ tExecs[2].out = "throw"
    /\ Len(tCalls) >= 3
    /\ tCalls[3].nexecs = 2
    /\ tCalls[3].scheduled # 0

\* fn was executed after call c was made
ExecAfter(c) == \E i \in 1..Len(tExecs) : tExecs[i].ncalls >= c

ThrottlePendingFlag ==
    /\ timeoutId # 0 <=> ThrottleTimers # {}
    /\ \A x \in ThrottleTimers : x.id = timeoutId
    /\ lastOp \in {"throttleTimer", "throttleTeardown"} => timeoutId = 0

\* fn threw in the trailing callback and a later suppressed call has
\* scheduled a trailing execution again
ThrottlePendingFlagWitness ==
    /\ Len(tExecs) > 0
    /\ tExecs[Len(tExecs)].kind = "trailing"
    /\ tExecs[Len(tExecs)].out = "throw"
    /\ timeoutId # 0
    /\ \E x \in ThrottleTimers : x.call > tExecs[Len(tExecs)].ncalls

\* ---- properties of the hooks ----

\* C12: after the component has unmounted, no timer made through the hook
\* is pending and fn is not executed any more.
HookUnmountCleanup ==
    ~hook.mounted /\ hook.kind # "none" =>
        /\ HookTimers = {}
        /\ hook.late = 0

\* ---- further properties of the debounce wrapper ----

\* call c+1 was made more than ms after call c
Spaced(c) == c < Len(dCalls) /\ dCalls[c + 1].time > dCalls[c].time + ms

\* fn had been executed for call c when call c+1 was made
RanBeforeNext(c) ==
    c < Len(dCalls) /\ \E i \in DExecsOf(c) : i <= dCalls[c + 1].nexecs

\* every call has its own execution, in call order, with its own argument
\* and promise; the last call may still be scheduled
OwnExecutions ==
    /\ \A c \in 1..(Len(dCalls) - 1) : Cardinality(DExecsOf(c)) = 1
    /\ Len(dCalls) > 0 =>
          \/ Cardinality(DExecsOf(Len(dCalls))) = 1 /\ DebounceTimers = {}
          \/ /\ DExecsOf(Len(dCalls)) = {}
             /\ \E x \in DebounceTimers : x.call = Len(dCalls)
    /\ \A i \in 1..Len(dExecs) :
          /\ dExecs[i].call = i
          /\ dExecs[i].args = dCalls[i].args
          /\ dExecs[i].time >= dCalls[i].time + ms
          /\ dExecs[i].out = "ret" =>
                promises[i] = [st |-> "resolved", v |-> FnValue(dCalls[i].args)]

\* C13 as stated: when every call is made more than ms after the previous
\* one and teardown is not called, every call has its own execution.
DebounceSpacedCalls ==
    (\A c \in 1..(Len(dCalls) - 1) : Spaced(c)) /\ dTorn = {} => OwnExecutions

\* C13 amended: when every call is made after the delayed execution of the
\* previous call has run and teardown is not called, every call has its own
\* execution, in call order, with its own argument and promise.
DebounceIndependentExecutions ==
    (\A c \in 1..(Len(dCalls) - 1) : RanBeforeNext(c)) /\ dTorn = {} =>
        OwnExecutions /\ dSuperseded = {}

\* two calls with differing arguments, the second made after the first was
\* executed, have both been executed
DebounceIndependentWitness ==
    /\ Len(dCalls) >= 2
    /\ \A c \in 1..(Len(dCalls) - 1) : RanBeforeNext(c) /\ Spaced(c)
    /\ dCalls[1].args # dCalls[2].args
    /\ dTorn = {}
    /\ ms > 0
    /\ Len(dExecs) = Len(dCalls)
    /\ promises[2].st = "resolved"

\* C15: with ms = 0 a debounced call does not execute fn itself: after the
\* call its timer is scheduled, its promise pending and fn has not run for
\* it; the call is executed in a later timer step, and is not executed at
\* all if a second call or a teardown came first.
DebounceZeroDelayDeferred ==
    ms = 0 =>
        /\ lastOp = "debounceFn" =>
              /\ DExecsOf(Len(dCalls)) = {}
              /\ Len(dExecs) = dCalls[Len(dCalls)].nexecs
              /\ promises[Len(dCalls)] = Pending
              /\ \E x \in DebounceTimers : x.call = Len(dCalls) /\ x.due = clock
        /\ \A c \in 1..(Len(dCalls) - 1) :
              ~RanBeforeNext(c) => DExecsOf(c) = {}
        /\ \A c \in dTorn : DExecsOf(c) = {}
        /\ \A i \in 1..Len(dExecs) : i > dCalls[dExecs[i].call].nexecs

\* with ms = 0, a second call made before the timer step replaced the
\* first, and only the second was executed
DebounceZeroDelayWitness ==
    /\ ms = 0
    /\ Len(dCalls) = 2
    /\ dCalls[2].time = dCalls[1].time
    /\ 1 \in dSuperseded
    /\ Len(dExecs) = 1
    /\ dExecs[1].call = 2

\* C17: at most one execution is scheduled at any time; it is the one of
\* the latest call and the one the handle t refers to, every earlier one
\* having been cleared by the call that replaced it.
DebounceSinglePendingTimer ==
    /\ Cardinality(DebounceTimers) <= 1
    /\ \A x \in DebounceTimers : x.id = t /\ x.call = Len(dCalls)
    /\ lastOp = "debounceFn" => Cardinality(DebounceTimers) = 1
    /\ \A c \in 1..(Len(dCalls) - 1) :
          c \in dSuperseded \/ c \in dTorn \/ DExecsOf(c) # {}

\* a call has just replaced the pending timer of the previous call
DebounceSinglePendingWitness ==
    /\ lastOp = "debounceFn"
    /\ Len(dCalls) = 2
    /\ 1 \in dSuperseded
    /\ dCalls[2].time > dCalls[1].time
    /\ Cardinality(DebounceTimers) = 1

\* C20: the promise of a call whose timer teardown cleared is never
\* settled.
DebounceTeardownAbandons ==
    \A c \in dTorn : promises[c] = Pending

\* the first call was torn down, a later call was made and settled, and
\* the first promise is still pending
DebounceTeardownAbandonsWitness ==
    /\ 1 \in dTorn
    /\ Len(promises) = 2
    /\ promises[2].st \in {"resolved", "rejected"}
    /\ promises[1] = Pending
    /\ clock > dCalls[1].time + ms + MaxLate

\* ---- properties of both wrappers ----
Teardowns == {"debounceTeardown", "throttleTeardown"}

\* the state of the wrapper and of the timer queue, and what fn and the
\* promises have seen
Observable ==
    <<nextId, timers, uncaught, t, promises, dExecs, lastCallTime, timeoutId,
      tExecs>>

\* C14: a teardown made when nothing is pending, or right after another
\* teardown, changes nothing; and the call made right after a teardown
\* schedules or executes as usual.
TeardownIdempotent ==
    [][/\ lastOp' \in Teardowns /\ (timers = {} \/ lastOp \in Teardowns)
          => UNCHANGED Observable
       /\ lastOp \in Teardowns /\ lastOp' = "debounceFn"
          => \E x \in timers' :
                /\ timers' = {x}
                /\ x.call = Len(dCalls')
                /\ x.due = clock + ms
       /\ lastOp \in Teardowns /\ lastOp' = "throttledFn"
          => \/ /\ Len(tExecs') = Len(tExecs) + 1
                /\ clock - lastCallTime >= interval
                /\ timers' = {}
             \/ /\ clock - lastCallTime < interval
                /\ tExecs' = tExecs
                /\ \E x \in timers' :
                      timers' = {x} /\ x.due = lastCallTime + interval
      ]_vars

\* both kinds of wrapper were torn down when idle: before any call, after
\* the timer had run, and after a teardown that cancelled a timer
TeardownIdleWitness ==
    /\ lastOp \in Teardowns
    /\ timers = {}
    /\ \/ dExecs # <<>> /\ dTorn = {}
       \/ \E i \in 1..Len(tExecs) : tExecs[i].kind = "trailing"

\* ---- properties of Hash ----

\* C16: randomXDigitHash returns a string of exactly length hexadecimal
\* characters.
HashExactLength ==
    hash.called =>
        /\ hash.out.defined
        /\ Len(hash.out.s) = hash.length
        /\ \A i \in 1..Len(hash.out.s) :
              \E d \in 1..16 : hash.out.s[i] = Hex[d]

====
